---- MODULE Spec2Model ----
(***************************************************************************)
(* Model of the engine-backed worker of runpod-flux-worker:                *)
(*   my-flux-worker/src/comfy_runner.py  (ComfyRunner: engine process,     *)
(*                                        readiness probe, job channel)    *)
(*   my-flux-worker/src/rp_handler.py    (find_node_and_set_widget_value,  *)
(*                                        handler, worker start)           *)
(***************************************************************************)
EXTENDS Integers, Sequences, FiniteSets, TLC

\* ------------------------------------------------------------------------
\* Bounds of the model
\* ------------------------------------------------------------------------
MaxNodes == 2        \* nodes of a workflow template
MaxWidgets == 2      \* length of a node's widgets_values list
MaxMsgs == 2         \* messages the engine sends on one job connection
MaxImages == 2       \* image descriptors of one 'executed' event
PipeCap == 1         \* lines an OS pipe holds before the writer blocks
MaxUuids == 2        \* job connections (uuid4 calls of _queue_prompt) of a run
MaxWait == 2         \* seconds a receive may wait that the model tells apart

\* ------------------------------------------------------------------------
\* Workflow graphs (the JSON document of /workflow_api.json)
\* ------------------------------------------------------------------------
\* A JSON node id: an integer, a string of digits, or no "id" key at all.
IntId(n) == [t |-> "int", n |-> n]
StrId(n) == [t |-> "str", n |-> n]
NoId == [t |-> "none", n |-> 0]

\* Python's str() on what node.get("id") returns.
str(id) == IF id.t = "none" THEN "None" ELSE ToString(id.n)

\* A node: its id, whether it has the key "widgets_values", and that list.
Node(id, has, wv) == [id |-> id, has_wv |-> has, widgets_values |-> wv]

\* The placeholder list of length n a template node carries.
Placeholders(n) == [i \in 1..n |-> IF i = 1 THEN "ph0" ELSE "ph1"]

NodesOver(ids, lens, mayLackWidgets) ==
    {Node(id, TRUE, Placeholders(n)) : id \in ids, n \in lens}
      \cup (IF mayLackWidgets THEN {Node(id, FALSE, <<>>) : id \in ids} ELSE {})

SeqsUpTo(S, n) == UNION {[1..k -> S] : k \in 0..n}

\* A workflow document: "graph" form has the key "nodes"; the "flattened"
\* form (a mapping keyed by node id) has not.
Workflow(has, nodes) == [has_nodes |-> has, nodes |-> nodes]
Flattened == Workflow(FALSE, <<>>)

TemplatesOver(nodeSet, n) ==
    {Workflow(TRUE, ns) : ns \in SeqsUpTo(nodeSet, n)} \cup {Flattened}

\* ------------------------------------------------------------------------
\* rp_handler.find_node_and_set_widget_value
\* ------------------------------------------------------------------------
\* The loop over workflow.get("nodes", []) from position i on: the first node
\* whose str(id) matches and whose widgets_values is long enough is written
\* and True is returned; a matching node whose list is too short is passed
\* over; the end of the list returns False.  The result carries the return
\* value and the workflow object as the call leaves it (it is written in
\* place).
RECURSIVE find_node_from(_, _, _, _, _)
find_node_from(workflow, i, node_id, widget_index, value) ==
    IF i > Len(workflow.nodes)
    THEN [ret |-> FALSE, workflow |-> workflow]
    ELSE LET node == workflow.nodes[i] IN
         IF /\ str(node.id) = ToString(node_id)
            /\ node.has_wv
            /\ Len(node.widgets_values) > widget_index
         THEN [ret |-> TRUE,
               workflow |-> [workflow EXCEPT
                   !.nodes[i].widgets_values[widget_index + 1] = value]]
         ELSE find_node_from(workflow, i + 1, node_id, widget_index, value)

\* A variant that replaces the whole widget list of the node it finds.
find_node_clobber(workflow, node_id, widget_index, value) ==
    LET r == find_node_from(workflow, 1, node_id, widget_index, value) IN
    IF ~r.ret THEN r
    ELSE [ret |-> TRUE,
          workflow |-> [workflow EXCEPT !.nodes =
              [i \in 1..Len(workflow.nodes) |->
                  IF r.workflow.nodes[i] # workflow.nodes[i]
                  THEN [workflow.nodes[i] EXCEPT !.widgets_values = <<value>>]
                  ELSE workflow.nodes[i]]]]

find_node_and_set_widget_value(workflow, node_id, widget_index, value) ==
    find_node_from(workflow, 1, node_id, widget_index, value)

\* ------------------------------------------------------------------------
\* os.path.join, on paths written as sequences of tokens ("/" separates)
\* ------------------------------------------------------------------------
\* posixpath.join(a, b): an absolute b discards a; otherwise b is appended,
\* after a separator unless a is empty or already ends with one.
os_path_join(a, b) ==
    IF b # <<>> /\ Head(b) = "/" THEN b
    ELSE IF a = <<>> \/ a[Len(a)] = "/" THEN a \o b
    ELSE a \o <<"/">> \o b

OutputRoot == <<"/", "ComfyUI", "/", "output">>

\* comfy_runner.py line 118: os.path.join('/ComfyUI/output', subfolder, filename)
full_path(image_info) ==
    os_path_join(os_path_join(OutputRoot, image_info.subfolder),
                 image_info.filename)

\* comfy_runner.py lines 113-119: one path per descriptor, in order.
image_paths_of(output_images) ==
    [i \in 1..Len(output_images) |-> full_path(output_images[i])]

\* ------------------------------------------------------------------------
\* Program constants
\* ------------------------------------------------------------------------
timeout == 60            \* _wait_for_server(timeout=60)
ConnectTimeout == 5      \* create_connection(ws_url, timeout=5)
SleepInterval == 1       \* time.sleep(1)

\* ------------------------------------------------------------------------
\* State
\* ------------------------------------------------------------------------
VARIABLES
    t_template,     \* parameterizer alone: the workflow object passed in
    t_args,         \* parameterizer alone: node_id, widget_index, value
    t_result,       \* parameterizer alone: NotCalled, or what the call left
    \* --- main thread: import of rp_handler, ComfyRunner.__init__ ---
    mpc,            \* position of the main thread
    elapsed,        \* time.time() - start_time inside _wait_for_server
    probe_ws,       \* the probe's connection: "none", "open", "closed"
    registered,     \* runpod.serverless.start({"handler": handler}) ran
    \* --- server thread and the engine process ---
    tpc,            \* position of the thread running _run_server_process
    engine,         \* "none", "running", "exited"
    listening,      \* the engine accepts connections on its endpoint
    stdout_pipe,    \* lines written to stdout and not yet read
    stderr_pipe,    \* lines written to stderr and not yet read
    \* --- files ---
    templateFile,   \* content of /workflow_api.json
    \* --- one invocation of handler(job) ---
    hpc,            \* position of the handler
    job,            \* job['input']
    workflow,       \* the local 'workflow'
    prompt_workflow,        \* the local 'prompt_workflow'
    ws,             \* the job's connection: "none", "open", "closed"
    ws_closes,      \* calls of ws.close() on the job's connection
    received,       \* messages received and passed over on it
    output_images,  \* the image list of the 'executed' event received
    qp_exit,        \* how _queue_prompt leaves its try block
    client_id,      \* the local 'client_id'
    ws_client,      \* the clientId of ws_url, the URL ws connects to
    sent,           \* the messages sent on the job's connection
    frames,         \* the messages ws.recv() has returned in this call
    recv_wait,      \* seconds spent in ws.recv() without a message
    issued,         \* the client ids of this and of earlier calls
    generated_image_paths,  \* the local 'generated_image_paths'
    output_image_path,      \* the local 'output_image_path'
    result,         \* what handler returns
    variant,        \* in-process worker: which handler.py is running
    PIPELINE,       \* in-process worker: the global PIPELINE
    pipe,           \* in-process worker: initialize_pipeline's local 'pipe'
    ipc,            \* in-process worker: position of the module's top level
    ppc,            \* in-process worker: position of handler
    pipe_job,       \* in-process worker: job['input'] of the running job
    result_image,   \* in-process worker: handler's local 'result_image'
    pipe_result,    \* in-process worker: what handler returns
    pipeline_calls, \* in-process worker: calls of PIPELINE(...)
    jobs_served,    \* in-process worker: invocations of handler so far
    two_pc,         \* concurrent invocations: position of each in handler
    two_image,      \* concurrent invocations: job_input['image'] of each
    input_files,    \* concurrent invocations: the files under /ComfyUI/input
    prompt_queue,   \* concurrent invocations: prompts the engine has queued
    load_image      \* concurrent invocations: what LoadImage read for each

paramVars == <<t_template, t_args, t_result>>
mainVars == <<mpc, elapsed, probe_ws, registered>>
engineVars == <<tpc, engine, listening, stdout_pipe, stderr_pipe>>
channelVars == <<ws, ws_closes, received, output_images, qp_exit, client_id,
                 ws_client, sent, frames, recv_wait, issued>>
handlerVars == <<hpc, job, workflow, prompt_workflow, generated_image_paths,
                 output_image_path, result>>
jobVars == <<channelVars, handlerVars>>
workerVars == <<mainVars, engineVars, templateFile, jobVars>>
pipeVars == <<variant, PIPELINE, pipe, ipc, ppc, pipe_job, result_image,
              pipe_result, pipeline_calls, jobs_served>>
twoVars == <<two_pc, two_image, input_files, prompt_queue, load_image>>
asideVars == <<paramVars, pipeVars, twoVars>>
vars == <<asideVars, workerVars>>

NotCalled == [ret |-> FALSE, workflow |-> Flattened, called |-> FALSE]

\* ------------------------------------------------------------------------
\* Values
\* ------------------------------------------------------------------------
NoJob == [prompt |-> "", image |-> ""]
\* job['input']: a missing key and an empty string are both falsy.
Jobs == [prompt : {"", "a cat in a hat"}, image : {"", "not-an-image", "imgA"}]

\* base64.b64decode followed by Image.open succeeds on these inputs only.
Decodable == {"imgA"}

NoResult == [keys |-> {}, error |-> "", detail |-> <<>>, image |-> <<>>]
ErrorResult(msg, detail) ==
    [keys |-> {"error"}, error |-> msg, detail |-> detail, image |-> <<>>]
\* {'image': base64 of the file at 'path'}
ImageResult(path) ==
    [keys |-> {"image"}, error |-> "", detail |-> <<>>, image |-> path]

\* What the engine reports in data.output.images (rp protocol: filename and
\* subfolder, the subfolder relative to the output directory or empty).
Descriptors ==
    [filename : {<<"out.png">>, <<"b.png">>}, subfolder : {<<>>, <<"sub">>}]
ImageLists == SeqsUpTo(Descriptors, MaxImages)

\* What the engine may send on a job connection: a binary preview frame,
\* text that is not JSON, a JSON object without 'type', an event of another
\* type, and the 'executed' event with its image list.
Binary == [frame |-> "binary", json |-> FALSE, type |-> "", images |-> <<>>]
NotJson == [frame |-> "text", json |-> FALSE, type |-> "", images |-> <<>>]
Untyped == [frame |-> "text", json |-> TRUE, type |-> "", images |-> <<>>]
Progress ==
    [frame |-> "text", json |-> TRUE, type |-> "progress", images |-> <<>>]
Executed(imgs) ==
    [frame |-> "text", json |-> TRUE, type |-> "executed", images |-> imgs]
EngineMessages ==
    {Binary, NotJson, Untyped, Progress} \cup {Executed(l) : l \in ImageLists}

NoClientId == 0

NoExit == [kind |-> "none", exc |-> "", paths |-> <<>>]
Return(paths) == [kind |-> "return", exc |-> "", paths |-> paths]
Raise(exc) == [kind |-> "raise", exc |-> exc, paths |-> <<>>]

\* The exceptions the steps of a job raise; all derive from Exception.
Exceptions ==
    {"ConnectionRefusedError", "WebSocketConnectionClosedException",
     "JSONDecodeError", "KeyError", "OSError"}

\* The exceptions the probe loop's except clause (line 78) names.
ProbeFailures ==
    {"WebSocketException", "ConnectionRefusedError", "ConnectionResetError",
     "TimeoutError"}

\* Templates of the whole worker: nodes 9 and 24, each with or without the
\* slot the handler writes.
WorkerNodes == NodesOver({IntId(9), IntId(24)}, 0..MaxWidgets, FALSE)
WorkerTemplates == TemplatesOver(WorkerNodes, MaxNodes)

\* The template the repository's worker is built for.
GoodTemplate ==
    Workflow(TRUE, <<Node(IntId(9), TRUE, Placeholders(1)),
                     Node(IntId(24), TRUE, Placeholders(1))>>)

\* ------------------------------------------------------------------------
\* Initial states
\* ------------------------------------------------------------------------
JobIdle ==
    /\ hpc = "idle"
    /\ job = NoJob
    /\ workflow = Flattened
    /\ prompt_workflow = <<>>
    /\ ws = "none"
    /\ ws_closes = 0
    /\ received = 0
    /\ output_images = <<>>
    /\ qp_exit = NoExit
    /\ client_id = NoClientId
    /\ ws_client = NoClientId
    /\ sent = <<>>
    /\ frames = <<>>
    /\ recv_wait = 0
    /\ issued = {}
    /\ generated_image_paths = <<>>
    /\ output_image_path = <<>>
    /\ result = NoResult

\* Before rp_handler is imported: nothing started.
NotStarted ==
    /\ mpc = "import"
    /\ elapsed = 0
    /\ probe_ws = "none"
    /\ registered = FALSE
    /\ tpc = "unstarted"
    /\ engine = "none"
    /\ listening = FALSE
    /\ stdout_pipe = 0
    /\ stderr_pipe = 0

WorkerIdle ==
    /\ NotStarted
    /\ JobIdle
    /\ templateFile = GoodTemplate

ParamUnused ==
    /\ t_template = Flattened
    /\ t_args = [node_id |-> 9, widget_index |-> 0, value |-> ""]
    /\ t_result = NotCalled

\* The in-process handlers are other programs; the engine-backed worker
\* does not run them.
PipeNoJob == [image_base64 |-> "", prompt |-> "", seed |-> "42", width |-> 1024]
PipeNoResult == [keys |-> {}, error |-> ""]

PipeJobIdle ==
    /\ ppc = "idle"
    /\ pipe_job = PipeNoJob
    /\ result_image = "none"
    /\ pipe_result = PipeNoResult

PipeUnused ==
    /\ variant = "src/handler.py"
    /\ PIPELINE = "None"
    /\ pipe = "none"
    /\ ipc = "unused"
    /\ PipeJobIdle
    /\ pipeline_calls = 0
    /\ jobs_served = 0

\* Invocations of handler that run at the same time.
MaxInvocations == 2
Invocations == 1..MaxInvocations

\* lines 45-47: input_dir and input_image_path, whatever the job.
input_image_path(p) == <<"/ComfyUI/input", "input_image.png">>
InputPaths == {input_image_path(p) : p \in Invocations}

TwoIdle ==
    /\ two_pc = [p \in Invocations |-> "idle"]
    /\ two_image = [p \in Invocations |-> ""]
    /\ input_files = [f \in InputPaths |-> "absent"]
    /\ prompt_queue = <<>>
    /\ load_image = [p \in Invocations |-> "none"]

\* The worker as it is started runs one handler at a time.
TwoUnused == TwoIdle

\* The worker from the import of rp_handler on.
Init ==
    /\ ParamUnused
    /\ PipeUnused
    /\ TwoUnused
    /\ NotStarted
    /\ JobIdle
    /\ templateFile \in WorkerTemplates

\* ------------------------------------------------------------------------
\* Main thread: runner = ComfyRunner()  (rp_handler.py line 13)
\* ------------------------------------------------------------------------
\* __init__ and _start_server up to the call of _wait_for_server: the server
\* thread is started and start_time is taken.
StartServer ==
    /\ mpc = "import"
    /\ tpc' = "popen"
    /\ elapsed' = 0
    /\ mpc' = "wait_test"
    /\ UNCHANGED <<probe_ws, registered, engine, listening, stdout_pipe,
                   stderr_pipe, templateFile, jobVars, asideVars>>

\* A loop test that is the wrong way round.
wait_loop_continues_inverted(e, t) == e > t

\* line 70: while time.time() - start_time < timeout
wait_loop_continues(e, t) == e < t

\* A loop end that returns instead of raising.
wait_loop_end_returns == "ready"

\* line 80: raise RuntimeError(...), out of ComfyRunner() and of the import
wait_loop_end == "startup_failed"

WaitTest ==
    /\ mpc = "wait_test"
    /\ mpc' = IF wait_loop_continues(elapsed, timeout)
              THEN "probe_connect" ELSE wait_loop_end
    /\ UNCHANGED <<elapsed, probe_ws, registered, engineVars, templateFile,
                   jobVars, asideVars>>

\* lines 73-74: create_connection succeeds only against a listening engine;
\* a refusal is immediate, a timeout takes the connect timeout.
ProbeConnect ==
    /\ mpc = "probe_connect"
    /\ \/ /\ engine = "running" /\ listening
          /\ probe_ws' = "open"
          /\ mpc' = "probe_close"
          /\ UNCHANGED elapsed
       \/ \E exc \in ProbeFailures :
            /\ elapsed' = elapsed + (IF exc = "TimeoutError"
                                     THEN ConnectTimeout ELSE 0)
            /\ mpc' = "probe_sleep"
            /\ UNCHANGED probe_ws
    /\ UNCHANGED <<registered, engineVars, templateFile, jobVars, asideVars>>

\* lines 75-77: ws.close(); return.  _wait_for_server's frame is gone.
ProbeClose ==
    /\ mpc = "probe_close"
    /\ probe_ws' = "closed"
    /\ elapsed' = 0
    /\ mpc' = "ready"
    /\ UNCHANGED <<registered, engineVars, templateFile, jobVars, asideVars>>

\* line 79: time.sleep(1)
ProbeSleep ==
    /\ mpc = "probe_sleep"
    /\ elapsed' = elapsed + SleepInterval
    /\ mpc' = "wait_test"
    /\ UNCHANGED <<probe_ws, registered, engineVars, templateFile, jobVars,
                   asideVars>>

\* rp_handler.py lines 102-104: runpod.serverless.start({"handler": handler})
RegisterHandler ==
    /\ mpc = "ready"
    /\ registered' = TRUE
    /\ mpc' = "serving"
    /\ UNCHANGED <<elapsed, probe_ws, engineVars, templateFile, jobVars,
                   asideVars>>

\* ------------------------------------------------------------------------
\* Server thread: _run_server_process, and the engine it spawns
\* ------------------------------------------------------------------------
\* lines 45-51: subprocess.Popen; a failed spawn raises in the thread.
Popen ==
    /\ tpc = "popen"
    /\ \/ /\ engine' = "running"
          /\ tpc' = "drain_stdout"
       \/ /\ tpc' = "crashed"
          /\ UNCHANGED engine
    /\ UNCHANGED <<listening, stdout_pipe, stderr_pipe, mainVars,
                   templateFile, jobVars, asideVars>>

\* lines 54-55: the loop over stdout.readline; it blocks on an empty pipe
\* and ends at end of file, which is when the engine has exited.
DrainStdout ==
    /\ tpc = "drain_stdout"
    /\ \/ /\ stdout_pipe > 0
          /\ stdout_pipe' = stdout_pipe - 1
          /\ UNCHANGED tpc
       \/ /\ stdout_pipe = 0 /\ engine = "exited"
          /\ tpc' = "drain_stderr"
          /\ UNCHANGED stdout_pipe
    /\ UNCHANGED <<engine, listening, stderr_pipe, mainVars, templateFile,
                   jobVars, asideVars>>

\* A supervisor that starts the engine again when its output has ended.
after_drain_respawns == "popen"

\* line 57 is the last of _run_server_process: the thread ends there.
after_drain == "finished"

\* lines 56-57: the loop over stderr.readline, entered after stdout's.
DrainStderr ==
    /\ tpc = "drain_stderr"
    /\ \/ /\ stderr_pipe > 0
          /\ stderr_pipe' = stderr_pipe - 1
          /\ UNCHANGED tpc
       \/ /\ stderr_pipe = 0 /\ engine = "exited"
          /\ tpc' = after_drain
          /\ UNCHANGED stderr_pipe
    /\ UNCHANGED <<engine, listening, stdout_pipe, mainVars, templateFile,
                   jobVars, asideVars>>

\* The engine (python main.py --listen=...) as the worker sees it: it starts
\* to listen, writes lines to its two pipes while they have room, and exits.
EngineListens ==
    /\ engine = "running" /\ ~listening
    /\ listening' = TRUE
    /\ UNCHANGED <<tpc, engine, stdout_pipe, stderr_pipe, mainVars,
                   templateFile, jobVars, asideVars>>

EngineWritesStdout ==
    /\ engine = "running" /\ stdout_pipe < PipeCap
    /\ stdout_pipe' = stdout_pipe + 1
    /\ UNCHANGED <<tpc, engine, listening, stderr_pipe, mainVars,
                   templateFile, jobVars, asideVars>>

EngineWritesStderr ==
    /\ engine = "running" /\ stderr_pipe < PipeCap
    /\ stderr_pipe' = stderr_pipe + 1
    /\ UNCHANGED <<tpc, engine, listening, stdout_pipe, mainVars,
                   templateFile, jobVars, asideVars>>

EngineExits ==
    /\ engine = "running"
    /\ engine' = "exited"
    /\ listening' = FALSE
    /\ UNCHANGED <<tpc, stdout_pipe, stderr_pipe, mainVars, templateFile,
                   jobVars, asideVars>>

\* ------------------------------------------------------------------------
\* rp_handler.handler(job)
\* ------------------------------------------------------------------------
\* A handler clause that lets connection errors through.
except_Exception_narrow(exc) == exc \in {"JSONDecodeError", "KeyError", "OSError"}

\* 'except Exception as e' (lines 52, 71, 97) catches every exception a step
\* of the job raises.
except_Exception(exc) == exc \in Exceptions

\* Where a step that raised 'exc' inside one of the handler's try blocks
\* leaves the handler: at its return, or with the exception escaping.
OnException(exc, msg) ==
    IF except_Exception(exc)
    THEN /\ result' = ErrorResult(msg, <<exc>>)
         /\ hpc' = "done"
    ELSE /\ result' = NoResult
         /\ hpc' = "raised"

\* lines 29-38: the two required inputs.
HandlerValidate ==
    /\ hpc = "idle" /\ registered
    /\ \E j \in Jobs :
         /\ job' = j
         /\ IF j.prompt = ""
            THEN /\ result' = ErrorResult("A text prompt is required.", <<>>)
                 /\ hpc' = "done"
            ELSE IF j.image = ""
            THEN /\ result' = ErrorResult(
                     "An input image (base64 encoded) is required.", <<>>)
                 /\ hpc' = "done"
            ELSE /\ result' = NoResult
                 /\ hpc' = "stage"
    /\ UNCHANGED <<workflow, prompt_workflow, generated_image_paths,
                   output_image_path, channelVars, mainVars, engineVars,
                   templateFile, asideVars>>

\* lines 41-54: decode the image and save it under /ComfyUI/input.
HandlerStageImage ==
    /\ hpc = "stage"
    /\ \E saved \in BOOLEAN :
         IF job.image \in Decodable /\ saved
         THEN /\ hpc' = "load"
              /\ UNCHANGED result
         ELSE /\ result' = ErrorResult("Failed to process input image: ",
                                       <<"OSError">>)
              /\ hpc' = "done"
    /\ UNCHANGED <<job, workflow, prompt_workflow, generated_image_paths,
                   output_image_path, channelVars, mainVars, engineVars,
                   templateFile, asideVars>>

\* lines 58-59: open('/workflow_api.json') and json.load; a fresh object.
HandlerLoadWorkflow ==
    /\ hpc = "load"
    /\ \/ /\ workflow' = templateFile
          /\ hpc' = "set_prompt"
          /\ UNCHANGED result
       \/ /\ OnException("OSError", "Failed to prepare workflow: ")
          /\ UNCHANGED workflow
    /\ UNCHANGED <<job, prompt_workflow, generated_image_paths,
                   output_image_path, channelVars, mainVars, engineVars,
                   templateFile, asideVars>>

\* A handler that goes on whatever the helper returned.
after_override_ignoring(ret, next) == next

\* lines 63-64 and 68-69: 'if not find_node_and_set_widget_value(...): return'
after_override(ret, next) == IF ret THEN next ELSE "done"

\* lines 63-64: the prompt into node 9, widget 0.
HandlerSetPrompt ==
    /\ hpc = "set_prompt"
    /\ LET r == find_node_and_set_widget_value(workflow, 9, 0, job.prompt) IN
         /\ workflow' = r.workflow
         /\ hpc' = after_override(r.ret, "set_image")
         /\ result' = IF r.ret THEN result
                      ELSE ErrorResult(
                        "Could not find prompt node (ID 9) in workflow.", <<>>)
    /\ UNCHANGED <<job, prompt_workflow, generated_image_paths,
                   output_image_path, channelVars, mainVars, engineVars,
                   templateFile, asideVars>>

\* lines 68-69: the staged file's name into node 24, widget 0.
HandlerSetImage ==
    /\ hpc = "set_image"
    /\ LET r == find_node_and_set_widget_value(
                    workflow, 24, 0, "input_image.png") IN
         /\ workflow' = r.workflow
         /\ hpc' = after_override(r.ret, "convert")
         /\ result' = IF r.ret THEN result
                      ELSE ErrorResult(
                        "Could not find Load Image node (ID 24) in workflow.",
                        <<>>)
    /\ UNCHANGED <<job, prompt_workflow, generated_image_paths,
                   output_image_path, channelVars, mainVars, engineVars,
                   templateFile, asideVars>>

\* line 79: {str(node["id"]): node for node in workflow["nodes"]}; of two
\* nodes with the same key the later one stays.
prompt_format(wf) ==
    LET keys == {str(wf.nodes[i].id) : i \in 1..Len(wf.nodes)} IN
    [k \in keys |->
        LET last == CHOOSE i \in 1..Len(wf.nodes) :
                      /\ str(wf.nodes[i].id) = k
                      /\ \A j \in 1..Len(wf.nodes) :
                            str(wf.nodes[j].id) = k => j <= i
        IN wf.nodes[last]]

HandlerConvert ==
    /\ hpc = "convert"
    /\ IF \E i \in 1..Len(workflow.nodes) : workflow.nodes[i].id = NoId
       THEN /\ OnException("KeyError", "An unexpected error occurred: ")
            /\ UNCHANGED prompt_workflow
       ELSE /\ prompt_workflow' = prompt_format(workflow)
            /\ hpc' = "connect"
            /\ UNCHANGED result
    /\ UNCHANGED <<job, workflow, generated_image_paths, output_image_path,
                   channelVars, mainVars, engineVars, templateFile, asideVars>>

\* ------------------------------------------------------------------------
\* ComfyRunner.run_workflow / _queue_prompt, called at rp_handler.py line 80
\* ------------------------------------------------------------------------
\* A generator that hands out one fixed identifier.
uuid4_fixed(given) == 1

\* line 92: str(uuid.uuid4()), an identifier no earlier call was given.
uuid4(given) == Cardinality(given) + 1

\* lines 92-96: a fresh client_id, the URL with it, a new WebSocket, and the
\* connect, all before the try block is entered; a failed connect raises
\* straight into the handler's except clause.
QueuePromptConnect ==
    /\ hpc = "connect"
    /\ Cardinality(issued) < MaxUuids
    /\ client_id' = uuid4(issued)
    /\ ws_client' = client_id'
    /\ issued' = issued \cup {client_id'}
    /\ \/ /\ engine = "running" /\ listening
          /\ ws' = "open"
          /\ hpc' = "send"
          /\ UNCHANGED result
       \/ /\ OnException("ConnectionRefusedError",
                         "An unexpected error occurred: ")
          /\ UNCHANGED ws
    /\ UNCHANGED <<ws_closes, received, output_images, qp_exit, sent, frames,
                   recv_wait, job, workflow,
                   prompt_workflow, generated_image_paths, output_image_path,
                   mainVars, engineVars, templateFile, asideVars>>

\* A submission that carries an identifier of its own.
prompt_data_own_id(pw, cid) == [prompt |-> pw, client_id |-> cid + 1]

\* line 100: {"prompt": prompt_workflow, "client_id": client_id}
prompt_data(pw, cid) == [prompt |-> pw, client_id |-> cid]

\* lines 100-101: ws.send(json.dumps(prompt_data))
QueuePromptSend ==
    /\ hpc = "send"
    /\ \/ /\ sent' = Append(sent, prompt_data(prompt_workflow, client_id))
          /\ hpc' = "recv"
          /\ UNCHANGED qp_exit
       \/ /\ qp_exit' = Raise("WebSocketConnectionClosedException")
          /\ hpc' = "finally"
          /\ UNCHANGED sent
    /\ UNCHANGED <<ws, ws_closes, received, output_images, client_id,
                   ws_client, frames, recv_wait, issued, job, workflow,
                   prompt_workflow, generated_image_paths, output_image_path,
                   result, mainVars, engineVars, templateFile, asideVars>>

\* A loop that hands binary frames to json.loads as well.
on_recv_parsing_binary(out) ==
    IF ~out.json THEN Raise("JSONDecodeError")
    ELSE IF out.type = "" THEN Raise("KeyError")
    ELSE IF out.type = "executed" THEN Return(image_paths_of(out.images))
    ELSE NoExit

\* lines 106-123: what the loop body does with what ws.recv() returned.
\*   a binary frame: 'continue', nothing is parsed;
\*   text: json.loads, which raises on text that is not JSON;
\*   message['type'], which raises when the key is missing;
\*   'executed': the paths of data.output.images are returned;
\*   any other type: the loop goes on.
\* NoExit stands for going round the loop.
on_recv(out) ==
    IF out.frame # "text" THEN NoExit
    ELSE IF ~out.json THEN Raise("JSONDecodeError")
    ELSE IF out.type = "" THEN Raise("KeyError")
    ELSE IF out.type = "executed" THEN Return(image_paths_of(out.images))
    ELSE NoExit

\* lines 104-123: one ws.recv() that returns a message of the engine, and
\* the loop body on it; or ws.recv() raises because the peer closed.
QueuePromptRecv ==
    /\ hpc = "recv"
    /\ \/ /\ engine = "running"
          /\ \E out \in EngineMessages :
               /\ on_recv(out) = NoExit => received < MaxMsgs
               /\ frames' = Append(frames, out)
               /\ qp_exit' = on_recv(out)
               /\ received' = IF on_recv(out) = NoExit
                              THEN received + 1 ELSE received
               /\ output_images' = IF on_recv(out).kind = "return"
                                   THEN out.images ELSE output_images
               /\ hpc' = IF on_recv(out) = NoExit THEN "recv" ELSE "finally"
       \/ /\ qp_exit' = Raise("WebSocketConnectionClosedException")
          /\ hpc' = "finally"
          /\ UNCHANGED <<received, output_images, frames>>
    /\ UNCHANGED <<ws, ws_closes, client_id, ws_client, sent, recv_wait,
                   issued, job, workflow, prompt_workflow,
                   generated_image_paths, output_image_path, result,
                   mainVars, engineVars, templateFile, asideVars>>

\* lines 95 and 105: the WebSocket is created without a timeout, so a
\* ws.recv() on a connection that stays open and silent goes on waiting;
\* another second passes.  (The model counts the seconds up to MaxWait.)
QueuePromptRecvWaits ==
    /\ hpc = "recv"
    /\ recv_wait < MaxWait
    /\ recv_wait' = recv_wait + 1
    /\ UNCHANGED <<ws, ws_closes, received, output_images, qp_exit, client_id,
                   ws_client, sent, frames, issued, handlerVars,
                   mainVars, engineVars, templateFile, asideVars>>

\* A finally clause that closes only when the try block returned.
closes_in_finally_on_return_only(exit) == IF exit.kind = "return" THEN 1 ELSE 0

\* lines 124-125: 'finally: ws.close()' runs once however the try block ended.
closes_in_finally(exit) == 1

\* The finally clause, then the return to the handler (line 80) or the
\* exception's arrival in the handler's except clause (line 97).  What the
\* loop kept of its receives goes with the frame of _queue_prompt.
QueuePromptFinally ==
    /\ hpc = "finally"
    /\ ws_closes' = ws_closes + closes_in_finally(qp_exit)
    /\ ws' = IF closes_in_finally(qp_exit) > 0 THEN "closed" ELSE ws
    /\ IF qp_exit.kind = "return"
       THEN /\ generated_image_paths' = qp_exit.paths
            /\ hpc' = "check_output"
            /\ UNCHANGED result
       ELSE /\ OnException(qp_exit.exc, "An unexpected error occurred: ")
            /\ UNCHANGED generated_image_paths
    /\ frames' = <<>>
    /\ recv_wait' = 0
    /\ UNCHANGED <<received, output_images, qp_exit, client_id, ws_client,
                   sent, issued, job, workflow,
                   prompt_workflow, output_image_path, mainVars, engineVars,
                   templateFile, asideVars>>

\* A handler that takes the last artifact.
primary_artifact_last(paths) == paths[Len(paths)]

\* line 86: generated_image_paths[0]
primary_artifact(paths) == paths[1]

\* lines 82-89: no paths is a failure; otherwise the first path is the
\* job's output, which must exist.
HandlerCheckOutput ==
    /\ hpc = "check_output"
    /\ IF generated_image_paths = <<>>
       THEN /\ result' = ErrorResult(
                 "Image generation failed, no output from ComfyUI.", <<>>)
            /\ hpc' = "done"
            /\ UNCHANGED output_image_path
       ELSE /\ output_image_path' = primary_artifact(generated_image_paths)
            /\ \E exists \in BOOLEAN :
                 IF exists
                 THEN /\ hpc' = "read_output"
                      /\ UNCHANGED result
                 ELSE /\ result' = ErrorResult(
                           "Generated image file not found at path: ",
                           primary_artifact(generated_image_paths))
                      /\ hpc' = "done"
    /\ UNCHANGED <<job, workflow, prompt_workflow, generated_image_paths,
                   channelVars, mainVars, engineVars, templateFile, asideVars>>

\* lines 91-95: read and encode the file, remove it, return the image.
HandlerReadOutput ==
    /\ hpc = "read_output"
    /\ \/ /\ result' = ImageResult(output_image_path)
          /\ hpc' = "done"
       \/ OnException("OSError", "An unexpected error occurred: ")
    /\ UNCHANGED <<job, workflow, prompt_workflow, generated_image_paths,
                   output_image_path, channelVars, mainVars, engineVars,
                   templateFile, asideVars>>

\* The handler has returned 'result'; its locals are gone and the worker
\* waits for the next job.
HandlerReturn ==
    /\ hpc = "done"
    /\ hpc' = "idle"
    /\ job' = NoJob
    /\ workflow' = Flattened
    /\ prompt_workflow' = <<>>
    /\ ws' = "none"
    /\ ws_closes' = 0
    /\ received' = 0
    /\ output_images' = <<>>
    /\ qp_exit' = NoExit
    /\ client_id' = NoClientId
    /\ ws_client' = NoClientId
    /\ sent' = <<>>
    /\ frames' = <<>>
    /\ recv_wait' = 0
    /\ UNCHANGED issued
    /\ generated_image_paths' = <<>>
    /\ output_image_path' = <<>>
    /\ result' = NoResult
    /\ UNCHANGED <<mainVars, engineVars, templateFile, asideVars>>

\* ------------------------------------------------------------------------
\* The worker
\* ------------------------------------------------------------------------
Next ==
    \/ StartServer \/ WaitTest \/ ProbeConnect \/ ProbeClose \/ ProbeSleep
    \/ RegisterHandler
    \/ Popen \/ DrainStdout \/ DrainStderr
    \/ EngineListens \/ EngineWritesStdout \/ EngineWritesStderr
    \/ EngineExits
    \/ HandlerValidate \/ HandlerStageImage \/ HandlerLoadWorkflow
    \/ HandlerSetPrompt \/ HandlerSetImage \/ HandlerConvert
    \/ QueuePromptConnect \/ QueuePromptSend \/ QueuePromptRecv
    \/ QueuePromptRecvWaits
    \/ QueuePromptFinally
    \/ HandlerCheckOutput \/ HandlerReadOutput \/ HandlerReturn

Spec == Init /\ [][Next]_vars

\* ------------------------------------------------------------------------
\* The parameterizer on its own, over every small template
\* ------------------------------------------------------------------------
ParamIds == {IntId(9), StrId(9), IntId(24), IntId(7), NoId}
ParamTemplates ==
    TemplatesOver(NodesOver(ParamIds, 0..MaxWidgets, TRUE), MaxNodes)
ParamValues == {"a cat in a hat", "input_image.png"}

ParamInit ==
    /\ t_template \in ParamTemplates
    /\ t_args \in [node_id : {9, 24}, widget_index : 0..(MaxWidgets - 1),
                   value : ParamValues]
    /\ t_result = NotCalled
    /\ WorkerIdle
    /\ PipeUnused
    /\ TwoUnused

CallParameterizer ==
    /\ ~t_result.called
    /\ LET r == find_node_and_set_widget_value(
                    t_template, t_args.node_id, t_args.widget_index,
                    t_args.value)
       IN t_result' = [ret |-> r.ret, workflow |-> r.workflow, called |-> TRUE]
    /\ UNCHANGED <<t_template, t_args, workerVars, pipeVars, twoVars>>

ParamNext == CallParameterizer

SpecParam == ParamInit /\ [][ParamNext]_vars

\* ------------------------------------------------------------------------
\* C3
\* ------------------------------------------------------------------------
\* The positions of T whose node matches the id and has the slot.
TargetPositions(T, a) ==
    {i \in 1..Len(T.nodes) :
        /\ str(T.nodes[i].id) = ToString(a.node_id)
        /\ T.nodes[i].has_wv
        /\ Len(T.nodes[i].widgets_values) > a.widget_index}

FirstTarget(T, a) ==
    CHOOSE i \in TargetPositions(T, a) :
        \A j \in TargetPositions(T, a) : i <= j

\* C3: when the override's node and slot exist in the template, the call
\* reports success and leaves a workflow with the same nodes in the same
\* order, in which the slot of the (first) matching node holds the override
\* value and every other slot of every node is what it was.
C3_OverrideWritesOnlyItsSlot ==
    (t_result.called /\ TargetPositions(t_template, t_args) # {}) =>
        LET T == t_template
            W == t_result.workflow
            k == FirstTarget(T, t_args)
        IN /\ t_result.ret
           /\ W.has_nodes = T.has_nodes
           /\ Len(W.nodes) = Len(T.nodes)
           /\ \A i \in 1..Len(T.nodes) :
                 /\ W.nodes[i].id = T.nodes[i].id
                 /\ W.nodes[i].has_wv = T.nodes[i].has_wv
                 /\ Len(W.nodes[i].widgets_values)
                      = Len(T.nodes[i].widgets_values)
                 /\ \A s \in 1..Len(T.nodes[i].widgets_values) :
                       W.nodes[i].widgets_values[s] =
                           IF i = k /\ s = t_args.widget_index + 1
                           THEN t_args.value
                           ELSE T.nodes[i].widgets_values[s]

\* An override has been applied to a template that holds its node and slot
\* next to another slot of the same node.
C3_Witness ==
    /\ t_result.called
    /\ TargetPositions(t_template, t_args) # {}
    /\ Len(t_template.nodes) = MaxNodes
    /\ Len(t_template.nodes[FirstTarget(t_template, t_args)].widgets_values) > 1

\* ------------------------------------------------------------------------
\* C1
\* ------------------------------------------------------------------------
InQueuePrompt == hpc \in {"send", "recv", "finally"}
AfterQueuePrompt == hpc \in {"check_output", "read_output", "done", "raised"}

\* C1: a job connection that was opened is closed exactly once by the time
\* _queue_prompt has exited, by return or by exception; it is not closed
\* while the try block runs and never closed twice.
C1_ClosedExactlyOnce ==
    /\ ws_closes <= 1
    /\ (AfterQueuePrompt /\ ws # "none") => (ws = "closed" /\ ws_closes = 1)
    /\ InQueuePrompt => (ws = "open" /\ ws_closes = 0)

\* _queue_prompt has exited by an exception after messages were passed over.
C1_Witness ==
    /\ hpc = "done"
    /\ qp_exit.kind = "raise"
    /\ received > 0
    /\ ws_closes = 1

\* ------------------------------------------------------------------------
\* C2
\* ------------------------------------------------------------------------
\* C2: no exception leaves handler; what it returns has exactly one of the
\* keys 'image' and 'error', an error with a message; a failed connection
\* attempt and an exception out of _queue_prompt make the handler return an
\* error; an image is returned only when an 'executed' event with images
\* arrived and its file was read.
C2_ErrorsNeverEscape ==
    /\ [](hpc # "raised")
    /\ [](hpc = "done" =>
            /\ result.keys \in {{"image"}, {"error"}}
            /\ (result.keys = {"error"} => result.error # "")
            /\ (result.keys = {"image"} =>
                   qp_exit.kind = "return" /\ output_images # <<>>))
    /\ [][((hpc = "connect" /\ hpc' # "connect" /\ ws' = "none")
             \/ (hpc = "finally" /\ hpc' # "finally" /\ qp_exit.kind = "raise")
             \/ (hpc = "load" /\ hpc' # "load" /\ workflow' # templateFile))
          => (hpc' = "done" /\ result'.keys = {"error"})]_vars

\* The engine closed the connection before any event, and the job has its
\* error result.
C2_Witness ==
    /\ hpc = "done"
    /\ job.image \in Decodable
    /\ qp_exit = Raise("WebSocketConnectionClosedException")
    /\ received = 0
    /\ result.keys = {"error"}

\* ------------------------------------------------------------------------
\* C4
\* ------------------------------------------------------------------------
\* The workflow T with value v in widget 0 of the first node that has the
\* id and the slot.
WithOverride(T, id, v) ==
    LET a == [node_id |-> id, widget_index |-> 0] IN
    [T EXCEPT !.nodes[FirstTarget(T, a)].widgets_values[1] = v]

Missing(T, id) ==
    TargetPositions(T, [node_id |-> id, widget_index |-> 0]) = {}

\* C4 as stated: a call of the parameterizer leaves the workflow object it
\* was passed with the slot values it had before the call.
C4_PassedGraphNeverMutated ==
    [][(hpc \in {"set_prompt", "set_image"}) => (workflow' = workflow)]_vars

\* C4 amended: the parameterizer writes into the object it is passed; what
\* stays as it was is the template file.  A job parameterizes what it has
\* just loaded from the file, after the prompt override that object is the
\* file's graph with exactly that slot replaced, and no step of the worker
\* changes the file.
C4_FileKeptObjectWritten ==
    /\ [](hpc = "set_prompt" => workflow = templateFile)
    /\ [](hpc = "set_image" =>
            /\ ~Missing(templateFile, 9)
            /\ workflow = WithOverride(templateFile, 9, job.prompt)
            /\ workflow # templateFile)
    /\ [][(templateFile' = templateFile)]_vars

\* The prompt has been written into the loaded object, next to a second
\* slot of the same node, and the file differs from it.
C4_Witness ==
    /\ hpc = "set_image"
    /\ workflow # templateFile
    /\ Len(workflow.nodes[FirstTarget(templateFile,
            [node_id |-> 9, widget_index |-> 0])].widgets_values) > 1

\* ------------------------------------------------------------------------
\* C5
\* ------------------------------------------------------------------------
ErrNoPromptNode == "Could not find prompt node (ID 9) in workflow."
ErrNoImageNode == "Could not find Load Image node (ID 24) in workflow."

\* The handler is past both overrides.
PastOverrides ==
    hpc \in {"convert", "connect", "send", "recv", "finally", "check_output",
             "read_output"}

\* C5 as stated: when a target is absent the job fails with the error that
\* names it, and at that point no override has been written into the
\* workflow.
C5_NoOverrideWrittenOnFailure ==
    (hpc = "done" /\ result.error \in {ErrNoPromptNode, ErrNoImageNode}) =>
        /\ workflow = templateFile
        /\ (result.error = ErrNoPromptNode => Missing(templateFile, 9))
        /\ (result.error = ErrNoImageNode => Missing(templateFile, 24))

\* C5 amended: with a target absent the handler never gets past the
\* overrides and never returns an image; the error names the identifier
\* that is missing; when it is node 9 nothing has been written, when it is
\* node 24 the prompt override, and only that, is already in the workflow.
C5_FailsNamingMissingNode ==
    /\ (Missing(templateFile, 9) \/ Missing(templateFile, 24)) =>
          (~PastOverrides /\ result.keys # {"image"} /\ ws = "none")
    /\ (hpc = "done" /\ result.error = ErrNoPromptNode) =>
          (Missing(templateFile, 9) /\ workflow = templateFile)
    /\ (hpc = "done" /\ result.error = ErrNoImageNode) =>
          /\ ~Missing(templateFile, 9)
          /\ Missing(templateFile, 24)
          /\ workflow = WithOverride(templateFile, 9, job.prompt)
    /\ (hpc = "done" /\ workflow # Flattened /\ Missing(templateFile, 9)) =>
          result.error = ErrNoPromptNode
    /\ (hpc = "done" /\ workflow # Flattened /\ ~Missing(templateFile, 9)
          /\ Missing(templateFile, 24)) => result.error = ErrNoImageNode

\* The image node's slot is missing, the failure is reported, and the prompt
\* is in the workflow.
C5_Witness ==
    /\ hpc = "done"
    /\ result.error = ErrNoImageNode
    /\ workflow # templateFile

\* ------------------------------------------------------------------------
\* C6
\* ------------------------------------------------------------------------
HoldsOverride(wf, id, v) ==
    \E i \in 1..Len(wf.nodes) :
        /\ str(wf.nodes[i].id) = ToString(id)
        /\ wf.nodes[i].has_wv
        /\ Len(wf.nodes[i].widgets_values) > 0
        /\ wf.nodes[i].widgets_values[1] = v

\* C6: whenever run_workflow has been called or a job connection exists,
\* the workflow holds both the job's prompt in node 9 and the staged file's
\* name in node 24; a job that failed an override has no connection.
C6_SubmitsOnlyFullyParameterized ==
    /\ (hpc \in {"connect", "send", "recv", "finally"} \/ ws # "none") =>
          /\ HoldsOverride(workflow, 9, job.prompt)
          /\ HoldsOverride(workflow, 24, "input_image.png")
    /\ (hpc = "done" /\ result.error \in {ErrNoPromptNode, ErrNoImageNode}) =>
          ws = "none"

\* A job connection is open and waits for events.
C6_Witness ==
    /\ hpc = "recv"
    /\ ws = "open"

\* ------------------------------------------------------------------------
\* C7
\* ------------------------------------------------------------------------
\* The output root, the subfolder when there is one, and the filename,
\* separated by "/".
ExpectedPath(d) ==
    IF d.subfolder = <<>>
    THEN <<"/", "ComfyUI", "/", "output", "/">> \o d.filename
    ELSE <<"/", "ComfyUI", "/", "output", "/">> \o d.subfolder \o <<"/">>
             \o d.filename

ErrNoOutput == "Image generation failed, no output from ComfyUI."

\* C7: after an 'executed' event without images the job returns the
\* no-output error; after one with images the handler's output path is the
\* first descriptor's, under the output root, and a returned image is the
\* file at that path, however many descriptors follow.
C7_FirstImageOrNoOutput ==
    /\ (hpc = "done" /\ qp_exit.kind = "return" /\ output_images = <<>>) =>
          result = ErrorResult(ErrNoOutput, <<>>)
    /\ ((hpc \in {"read_output", "done"}) /\ qp_exit.kind = "return"
          /\ output_images # <<>>) =>
          /\ output_image_path = ExpectedPath(output_images[1])
          /\ result.error # ErrNoOutput
          /\ (result.keys = {"image"} =>
                 result.image = ExpectedPath(output_images[1]))

\* A job has returned its image after an event with two different images.
C7_Witness ==
    /\ hpc = "done"
    /\ Len(output_images) = 2
    /\ output_images[1] # output_images[2]
    /\ output_images[1].subfolder # <<>>
    /\ result.keys = {"image"}

\* ------------------------------------------------------------------------
\* C8
\* ------------------------------------------------------------------------
\* C8: the probe loop gives up only when the elapsed time has reached the
\* timeout; an attempt is made only before that; a failed attempt is
\* followed by the sleep, which takes the interval, so the elapsed time
\* grows with every round and stays below the timeout plus one attempt and
\* one sleep.
C8_ProbeTimesOut ==
    /\ [](mpc = "startup_failed" => elapsed >= timeout)
    /\ [](mpc = "probe_connect" => elapsed < timeout)
    /\ [](elapsed < timeout + ConnectTimeout + SleepInterval)
    /\ [][(mpc = "probe_connect" /\ mpc' # "probe_connect"
             /\ probe_ws' = probe_ws) => mpc' = "probe_sleep"]_vars
    /\ [][(mpc = "probe_sleep") =>
             (mpc' = "wait_test" /\ elapsed' >= elapsed + SleepInterval)]_mpc

\* The probe has given up against an engine that runs and never listened.
C8_Witness ==
    /\ mpc = "startup_failed"
    /\ engine = "running"
    /\ ~listening

\* ------------------------------------------------------------------------
\* C9
\* ------------------------------------------------------------------------
\* C9: a registered handler, a running job or a job connection implies a
\* probe that succeeded and closed its connection; after a failed probe
\* nothing is registered, no job runs, and that stays so.
C9_ReadinessGatesJobs ==
    /\ []((registered \/ hpc # "idle" \/ ws # "none") =>
            (probe_ws = "closed" /\ mpc = "serving"))
    /\ [](mpc = "startup_failed" =>
            (~registered /\ hpc = "idle" /\ ws = "none" /\ probe_ws = "none"))
    /\ [][(mpc = "startup_failed") => (mpc' = "startup_failed")]_vars

\* A job connection is open; the probe's is closed.
C9_Witness ==
    /\ ws = "open"
    /\ probe_ws = "closed"
    /\ registered

\* ------------------------------------------------------------------------
\* C10
\* ------------------------------------------------------------------------
\* C10: while the engine runs, a full stderr pipe is being read: the thread
\* that drains it is at stderr's readline loop.
C10_StderrDrainedWhileEngineRuns ==
    (engine = "running" /\ stderr_pipe = PipeCap) => tpc = "drain_stderr"

\* ------------------------------------------------------------------------
\* C11
\* ------------------------------------------------------------------------
\* C11: once the spawn of the engine has failed, the start fails at once:
\* the main thread does not enter the probe loop (again), makes no probe
\* attempt and does not sleep; and no engine process exists.
C11_SpawnFailureFailsAtOnce ==
    /\ [](tpc = "crashed" => engine = "none")
    /\ [][(tpc = "crashed" /\ mpc' # mpc) =>
             (mpc' \notin {"probe_connect", "probe_sleep"})]_vars

\* ------------------------------------------------------------------------
\* C16
\* ------------------------------------------------------------------------
\* C16: an engine process comes into being only by the one Popen of the
\* server thread, from no process at all; an engine that has exited stays
\* exited and the thread never returns to Popen; a job's connection attempt
\* made while the engine has exited fails and ends the job with an error
\* result and no connection.
C16_NoRespawnCrashSeenByNextJob ==
    /\ [][(engine' = "running" /\ engine # "running") =>
             (engine = "none" /\ tpc = "popen")]_vars
    /\ [][(engine = "exited") => (engine' = "exited")]_vars
    /\ [][(tpc # "popen") => (tpc' # "popen" \/ tpc = "unstarted")]_vars
    /\ [][(engine = "exited" /\ hpc = "connect" /\ hpc' # "connect") =>
             (hpc' = "done" /\ result'.keys = {"error"} /\ ws' = "none")]_vars

\* The engine exited after a successful start, its output has been drained
\* to the end, and the job that came next has its error.
C16_Witness ==
    /\ engine = "exited"
    /\ tpc = "finished"
    /\ probe_ws = "closed"
    /\ hpc = "done"
    /\ result.detail = <<"ConnectionRefusedError">>

\* ------------------------------------------------------------------------
\* C12
\* ------------------------------------------------------------------------
UniqueKeys(wf) ==
    \A i, j \in 1..Len(wf.nodes) :
        str(wf.nodes[i].id) = str(wf.nodes[j].id) => i = j

\* The mapping m has one entry per node id of wf, each a node of wf with
\* that id; with ids unique it holds every node, the overrides included.
CarriesWorkflow(m, wf) ==
    /\ DOMAIN m = {str(wf.nodes[i].id) : i \in 1..Len(wf.nodes)}
    /\ \A k \in DOMAIN m :
          \E i \in 1..Len(wf.nodes) :
              str(wf.nodes[i].id) = k /\ m[k] = wf.nodes[i]
    /\ UniqueKeys(wf) =>
          /\ m["9"].widgets_values[1] = job.prompt
          /\ m["24"].widgets_values[1] = "input_image.png"

\* C12: at most one message is sent on a job connection; nothing has been
\* received, waited for or returned while none is sent; the message holds
\* the parameterized workflow under 'prompt' and under 'client_id' the
\* identifier of the URL the connection was opened with.
C12_OneSubmissionBeforeReceive ==
    /\ [](Len(sent) <= 1)
    /\ [](sent = <<>> =>
            (frames = <<>> /\ received = 0 /\ recv_wait = 0
               /\ qp_exit.kind # "return" /\ hpc # "recv"))
    /\ [](sent # <<>> =>
            /\ ws # "none"
            /\ client_id # NoClientId
            /\ sent[1].client_id = ws_client
            /\ CarriesWorkflow(sent[1].prompt, workflow))
    /\ [][(frames' # frames /\ frames' # <<>>) => (Len(sent) = 1)]_vars

\* The submission is out and messages have come in after it.
C12_Witness ==
    /\ hpc = "recv"
    /\ Len(sent) = 1
    /\ Len(frames) > 0

\* ------------------------------------------------------------------------
\* C13
\* ------------------------------------------------------------------------
\* C13: the identifier of a call was given to no earlier call; a job
\* connection is opened only by the connect step of a call that has none,
\* an open one only stays open or is closed, a closed one stays closed
\* until the handler returns; a call reaches its connect step once, sends
\* at most once, and after a failure goes to its end.
C13_NoRetryNoSharing ==
    /\ [][(hpc = "connect" /\ hpc' # "connect") =>
             (client_id' # NoClientId /\ client_id' \notin issued
                /\ ws_client' = client_id')]_vars
    /\ [][(ws' = "open" /\ ws # "open") =>
             (hpc = "connect" /\ ws = "none" /\ sent = <<>>)]_vars
    /\ [][(ws = "open") => (ws' \in {"open", "closed"})]_vars
    /\ [][(ws = "closed") =>
             (ws' = "closed" \/ (hpc = "done" /\ hpc' = "idle"))]_vars
    /\ [][(hpc' = "connect") => (hpc \in {"convert", "connect"})]_vars
    /\ [][(sent' # sent /\ sent' # <<>>) => (sent = <<>>)]_vars
    /\ [][(qp_exit.kind = "raise") =>
             (hpc' \in {"finally", "done", "idle"} /\ sent' \in {sent, <<>>}
                /\ client_id' \in {client_id, NoClientId})]_vars
    /\ [](InQueuePrompt => (client_id = ws_client /\ client_id \in issued))

\* A second job has its connection open, after a first call's identifier.
C13_Witness ==
    /\ ws = "open"
    /\ Cardinality(issued) = 2

\* ------------------------------------------------------------------------
\* C14
\* ------------------------------------------------------------------------
\* C14: a job in the receive loop has waited less than the bound on its
\* wait; the loop is left, with a timeout error, before the wait gets
\* there.
C14_ReceiveWaitBounded ==
    hpc = "recv" => recv_wait < MaxWait

\* ------------------------------------------------------------------------
\* C15
\* ------------------------------------------------------------------------
\* A binary frame, or a JSON event whose type is not 'executed'.
Ignorable(m) ==
    \/ m.frame = "binary"
    \/ m.frame = "text" /\ m.json /\ m.type \notin {"", "executed"}

LastFrame == frames[Len(frames)]

\* C15: while the loop runs, everything received so far was ignorable and
\* nothing is decided; a receive of an ignorable message leaves the loop
\* running and the outcome, the image list and the connection as they were;
\* the loop returns only on an 'executed' event, the first of the sequence,
\* and returns the paths of that event's descriptors whatever came before;
\* a parse error comes from a text message only.
C15_OnlyFirstExecutedCounts ==
    /\ [](hpc = "recv" =>
            /\ qp_exit = NoExit
            /\ received = Len(frames)
            /\ \A i \in 1..Len(frames) : Ignorable(frames[i]))
    /\ []((hpc = "finally" /\ qp_exit.kind = "return") =>
            /\ frames # <<>>
            /\ LastFrame.frame = "text" /\ LastFrame.type = "executed"
            /\ \A i \in 1..(Len(frames) - 1) : Ignorable(frames[i])
            /\ output_images = LastFrame.images
            /\ Len(qp_exit.paths) = Len(LastFrame.images)
            /\ \A j \in 1..Len(LastFrame.images) :
                  qp_exit.paths[j] = ExpectedPath(LastFrame.images[j]))
    /\ []((hpc = "finally" /\ qp_exit.exc \in {"JSONDecodeError", "KeyError"})
            => (frames # <<>> /\ LastFrame.frame = "text"
                  /\ ~Ignorable(LastFrame)))
    /\ [][(hpc = "recv" /\ frames' # frames /\ frames' # <<>>
             /\ Ignorable(frames'[Len(frames')])) =>
             (hpc' = "recv" /\ qp_exit' = qp_exit
                /\ output_images' = output_images /\ ws' = ws)]_vars

\* The loop has returned on an 'executed' event that came after a binary
\* frame and an event of another type.
C15_Witness ==
    /\ hpc = "finally"
    /\ qp_exit.kind = "return"
    /\ Len(frames) = 3
    /\ frames[1] = Binary
    /\ frames[2] = Progress
    /\ Len(frames[3].images) = 2

\* ------------------------------------------------------------------------
\* The in-process workers: src/handler.py and src/my-flux-worker/handler.py
\* ------------------------------------------------------------------------
MaxPipeJobs == 2

Variants == {"src/handler.py", "src/my-flux-worker/handler.py"}

\* job['input']: the seed an integer or not, the width positive or not.
PipeJobs ==
    [image_base64 : {"", "not-an-image", "imgA"},
     prompt : {"", "a cat in a hat"},
     seed : {"42", "'seven'"},
     width : {1024, 0}]

PipeError(msg) == [keys |-> {"error"}, error |-> msg]
PipeImage == [keys |-> {"image_base64"}, error |-> ""]

ErrNotInitialized ==
    "Pipeline is not initialized. The worker failed to start correctly."
ErrMissingInputs ==
    "Missing required inputs: 'image_base64' and 'prompt' are required."
ErrDecode == "Failed to decode or open base64 image"
ErrInference == "An error occurred during inference"

\* The module is imported: PIPELINE = None, then initialize_pipeline().
PipeInit ==
    /\ variant \in Variants
    /\ PIPELINE = "None"
    /\ pipe = "none"
    /\ ipc = "makedirs"
    /\ PipeJobIdle
    /\ pipeline_calls = 0
    /\ jobs_served = 0
    /\ ParamUnused
    /\ WorkerIdle
    /\ TwoUnused

\* os.makedirs(cache_dir, exist_ok=True), before the try: an OSError
\* leaves initialize_pipeline and the module.
Makedirs ==
    /\ ipc = "makedirs"
    /\ \E ok \in BOOLEAN :
          ipc' = IF ok THEN "from_pretrained" ELSE "import_raised"
    /\ UNCHANGED <<variant, PIPELINE, pipe, ppc, pipe_job, result_image,
                   pipe_result, pipeline_calls, jobs_served, paramVars,
                   workerVars, twoVars>>

\* A handler that keeps the loaded pipeline although the move failed.
pipeline_after_init_keeps_loaded(loaded, moved) ==
    IF loaded THEN "pipe" ELSE "None"

\* PIPELINE after the try statement of initialize_pipeline.
pipeline_after_init(loaded, moved) ==
    IF loaded /\ moved THEN "pipe" ELSE "None"

\* pipe = FluxKontextPipeline.from_pretrained(...)
FromPretrained ==
    /\ ipc = "from_pretrained"
    /\ \/ /\ pipe' = "loaded"
          /\ ipc' = "to_cuda"
          /\ UNCHANGED PIPELINE
       \/ /\ PIPELINE' = pipeline_after_init(FALSE, FALSE)
          /\ ipc' = "start"
          /\ UNCHANGED pipe
    /\ UNCHANGED <<variant, ppc, pipe_job, result_image, pipe_result,
                   pipeline_calls, jobs_served, paramVars,
                   workerVars, twoVars>>

\* pipe.to("cuda"); PIPELINE = pipe
ToCuda ==
    /\ ipc = "to_cuda"
    /\ \E moved \in BOOLEAN :
          /\ pipe' = IF moved THEN "on_gpu" ELSE pipe
          /\ PIPELINE' = pipeline_after_init(TRUE, moved)
    /\ ipc' = "start"
    /\ UNCHANGED <<variant, ppc, pipe_job, result_image, pipe_result,
                   pipeline_calls, jobs_served, paramVars,
                   workerVars, twoVars>>

\* runpod.serverless.start({"handler": handler})
ServerlessStart ==
    /\ ipc = "start"
    /\ ipc' = "serving"
    /\ UNCHANGED <<variant, PIPELINE, pipe, ppc, pipe_job, result_image,
                   pipe_result, pipeline_calls, jobs_served, paramVars,
                   workerVars, twoVars>>

\* handler(job): the test of PIPELINE and job.get('input', {}).
PipeHandlerEnter ==
    /\ ipc = "serving"
    /\ ppc = "idle"
    /\ jobs_served < MaxPipeJobs
    /\ jobs_served' = jobs_served + 1
    /\ \E j \in PipeJobs : pipe_job' = j
    /\ IF PIPELINE = "None"
       THEN /\ pipe_result' = PipeError(ErrNotInitialized)
            /\ ppc' = "done"
       ELSE /\ pipe_result' = PipeNoResult
            /\ ppc' = "validate"
    /\ UNCHANGED <<variant, PIPELINE, pipe, ipc, result_image, pipeline_calls,
                   paramVars,
                   workerVars, twoVars>>

\* if not base64_image or not prompt
PipeHandlerValidate ==
    /\ ppc = "validate"
    /\ IF pipe_job.image_base64 = "" \/ pipe_job.prompt = ""
       THEN /\ pipe_result' = PipeError(ErrMissingInputs)
            /\ ppc' = "done"
       ELSE /\ ppc' = "decode"
            /\ UNCHANGED pipe_result
    /\ UNCHANGED <<variant, PIPELINE, pipe, ipc, pipe_job, result_image,
                   pipeline_calls, jobs_served, paramVars,
                   workerVars, twoVars>>

\* try: b64decode, Image.open, convert  except Exception: return error
PipeHandlerDecode ==
    /\ ppc = "decode"
    /\ IF pipe_job.image_base64 \in Decodable
       THEN /\ ppc' = "params"
            /\ UNCHANGED pipe_result
       ELSE /\ pipe_result' = PipeError(ErrDecode)
            /\ ppc' = "done"
    /\ UNCHANGED <<variant, PIPELINE, pipe, ipc, pipe_job, result_image,
                   pipeline_calls, jobs_served, paramVars,
                   workerVars, twoVars>>

\* What torch.Generator(...).manual_seed(seed) and, in src/handler.py,
\* image_input.resize((width, height), ...) do, outside any try.
params_raise(v, j) ==
    \/ j.seed # "42"
    \/ v = "src/handler.py" /\ j.width <= 0

PipeHandlerParams ==
    /\ ppc = "params"
    /\ ppc' = IF params_raise(variant, pipe_job) THEN "raised"
              ELSE "inference"
    /\ UNCHANGED <<variant, PIPELINE, pipe, ipc, pipe_job, result_image,
                   pipe_result, pipeline_calls, jobs_served, paramVars,
                   workerVars, twoVars>>

\* What handler binds to result_image from the list PIPELINE(...).images.
bound_result_image(v) ==
    IF v = "src/handler.py" THEN "image" ELSE "list"

\* try: PIPELINE(...).images  except Exception: return error
PipeHandlerInference ==
    /\ ppc = "inference"
    /\ pipeline_calls' = pipeline_calls + 1
    /\ \/ /\ result_image' = bound_result_image(variant)
          /\ ppc' = "encode"
          /\ UNCHANGED pipe_result
       \/ /\ pipe_result' = PipeError(ErrInference)
          /\ ppc' = "done"
          /\ UNCHANGED result_image
    /\ UNCHANGED <<variant, PIPELINE, pipe, ipc, pipe_job, jobs_served,
                   paramVars,
                   workerVars, twoVars>>

\* result_image.save(buffered, format="PNG"); b64encode; return, outside
\* any try: a list has no save, and save itself may fail.
PipeHandlerEncode ==
    /\ ppc = "encode"
    /\ \/ /\ result_image = "image"
          /\ pipe_result' = PipeImage
          /\ ppc' = "done"
       \/ /\ ppc' = "raised"
          /\ UNCHANGED pipe_result
    /\ UNCHANGED <<variant, PIPELINE, pipe, ipc, pipe_job, result_image,
                   pipeline_calls, jobs_served, paramVars,
                   workerVars, twoVars>>

\* The SDK has the job's outcome; handler's locals are gone.
PipeHandlerLeave ==
    /\ ppc \in {"done", "raised"}
    /\ ppc' = "idle"
    /\ pipe_job' = PipeNoJob
    /\ result_image' = "none"
    /\ pipe_result' = PipeNoResult
    /\ UNCHANGED <<variant, PIPELINE, pipe, ipc, pipeline_calls, jobs_served,
                   paramVars,
                   workerVars, twoVars>>

PipeNext ==
    \/ Makedirs
    \/ FromPretrained
    \/ ToCuda
    \/ ServerlessStart
    \/ PipeHandlerEnter
    \/ PipeHandlerValidate
    \/ PipeHandlerDecode
    \/ PipeHandlerParams
    \/ PipeHandlerInference
    \/ PipeHandlerEncode
    \/ PipeHandlerLeave

SpecPipe == PipeInit /\ [][PipeNext]_vars

\* ------------------------------------------------------------------------
\* C17
\* ------------------------------------------------------------------------
\* C17: for a job with a prompt and a decodable image, the in-process
\* handler never raises; when it is done it has returned either the base64
\* image or a mapping with the key 'error'.
C17_PipeHandlerNeverRaises ==
    (pipe_job.prompt # "" /\ pipe_job.image_base64 \in Decodable) =>
        /\ ppc # "raised"
        /\ ppc = "done" => pipe_result.keys \in {{"error"}, {"image_base64"}}

\* ------------------------------------------------------------------------
\* C18
\* ------------------------------------------------------------------------
NotInitializedOnly ==
    /\ pipeline_calls = 0
    /\ ppc \in {"idle", "done"}
    /\ result_image = "none"
    /\ ppc = "done" => pipe_result = PipeError(ErrNotInitialized)

\* What holds of initialization whatever fails in it: PIPELINE is set only
\* by an initialization that loaded the pipeline and moved it to the GPU,
\* a failure to load or to move goes on to the start of the worker with
\* PIPELINE None, no job changes PIPELINE, and with PIPELINE None every job
\* returns the 'not initialized' error and the pipeline is never invoked.
InitContained ==
    /\ [](PIPELINE # "None" =>
            (pipe = "on_gpu" /\ ipc \in {"start", "serving"}))
    /\ [][(ipc \in {"from_pretrained", "to_cuda"}) =>
             (ipc' \in {ipc, "to_cuda", "start"})]_vars
    /\ [][(ipc = "to_cuda" /\ ipc' = "start" /\ pipe' # "on_gpu") =>
             (PIPELINE' = "None")]_vars
    /\ [][(ipc \in {"start", "serving"}) => (PIPELINE' = PIPELINE)]_vars
    /\ [](PIPELINE = "None" => NotInitializedOnly)
    /\ [][(ppc = "idle" /\ ppc' # "idle" /\ PIPELINE = "None") =>
             (ppc' = "done" /\ pipe_result' = PipeError(ErrNotInitialized))]_vars

\* C18 as stated: a failed initialization never raises and never keeps the
\* worker from starting; PIPELINE stays None, jobs are accepted and each
\* returns the 'not initialized' error without invoking the pipeline;
\* PIPELINE is non-None only after a successful initialization and no job
\* changes it.
C18_FailedInitNeverRaises ==
    /\ [](ipc # "import_raised")
    /\ InitContained

\* C18 amended: the same, for a failure to load the pipeline or to move it
\* to the GPU; the module raises, and the worker does not start, exactly
\* when creating the cache directory fails, before anything is loaded.
C18_LoadFailureContained ==
    /\ InitContained
    /\ [][(ipc' = "import_raised") =>
             (ipc \in {"makedirs", "import_raised"})]_vars
    /\ [](ipc = "import_raised" =>
            (pipe = "none" /\ PIPELINE = "None" /\ jobs_served = 0))

\* The move to the GPU failed, the worker started all the same and has
\* answered its second job with the 'not initialized' error.
C18_Witness ==
    /\ ipc = "serving"
    /\ pipe = "loaded"
    /\ PIPELINE = "None"
    /\ jobs_served = 2
    /\ ppc = "done"
    /\ pipe_result = PipeError(ErrNotInitialized)

\* ------------------------------------------------------------------------
\* Invocations of rp_handler.handler that interleave (lines 40-80)
\* ------------------------------------------------------------------------
TwoImages == {"not-an-image", "imgA", "imgB"}
TwoDecodable == {"imgA", "imgB"}

TwoInit ==
    /\ TwoIdle
    /\ ParamUnused
    /\ PipeUnused
    /\ WorkerIdle

\* handler(job) is entered with a job that has a prompt and an image.
TwoEnter(p) ==
    /\ two_pc[p] = "idle"
    /\ \E img \in TwoImages : two_image' = [two_image EXCEPT ![p] = img]
    /\ two_pc' = [two_pc EXCEPT ![p] = "stage"]
    /\ UNCHANGED <<input_files, prompt_queue, load_image, paramVars, pipeVars,
                   workerVars>>

\* lines 41-54: decode, open, image.save(input_image_path).
TwoStageImage(p) ==
    /\ two_pc[p] = "stage"
    /\ IF two_image[p] \in TwoDecodable
       THEN /\ input_files' =
                  [input_files EXCEPT ![input_image_path(p)] = two_image[p]]
            /\ two_pc' = [two_pc EXCEPT ![p] = "submit"]
       ELSE /\ two_pc' = [two_pc EXCEPT ![p] = "done"]
            /\ UNCHANGED input_files
    /\ UNCHANGED <<two_image, prompt_queue, load_image, paramVars, pipeVars,
                   workerVars>>

\* lines 57-80 up to the submission: the workflow names "input_image.png"
\* for node 24 and is sent to the engine, which queues it.
TwoSubmit(p) ==
    /\ two_pc[p] = "submit"
    /\ prompt_queue' = Append(prompt_queue, p)
    /\ two_pc' = [two_pc EXCEPT ![p] = "wait"]
    /\ UNCHANGED <<two_image, input_files, load_image, paramVars, pipeVars,
                   workerVars>>

\* The engine runs the prompt at the head of its queue: its LoadImage node
\* reads the file the workflow names.
EngineLoadImage ==
    /\ prompt_queue # <<>>
    /\ LET p == Head(prompt_queue)
       IN load_image' =
             [load_image EXCEPT ![p] = input_files[input_image_path(p)]]
    /\ prompt_queue' = Tail(prompt_queue)
    /\ UNCHANGED <<two_pc, two_image, input_files, paramVars, pipeVars,
                   workerVars>>

\* line 80 returns: the 'executed' event of the job's prompt has come.
TwoReturn(p) ==
    /\ two_pc[p] = "wait"
    /\ load_image[p] # "none"
    /\ two_pc' = [two_pc EXCEPT ![p] = "done"]
    /\ UNCHANGED <<two_image, input_files, prompt_queue, load_image, paramVars,
                   pipeVars, workerVars>>

Enter == \E p \in Invocations : TwoEnter(p)
StageImage == \E p \in Invocations : TwoStageImage(p)
Submit == \E p \in Invocations : TwoSubmit(p)
ReturnFromRun == \E p \in Invocations : TwoReturn(p)

TwoNext ==
    \/ Enter
    \/ StageImage
    \/ Submit
    \/ EngineLoadImage
    \/ ReturnFromRun

SpecTwoJobs == TwoInit /\ [][TwoNext]_vars

\* ------------------------------------------------------------------------
\* C19
\* ------------------------------------------------------------------------
\* C19: what the engine reads as the input image of a job's workflow is the
\* image that job staged, and while a job's workflow is submitted and not
\* yet read the staged file holds that job's image.
C19_EngineReadsOwnImage ==
    \A p \in Invocations :
        /\ load_image[p] # "none" => load_image[p] = two_image[p]
        /\ (two_pc[p] = "wait" /\ load_image[p] = "none") =>
              input_files[input_image_path(p)] = two_image[p]

====
